---- MODULE Spec2Model ----
(***************************************************************************)
(* AgentDock "conceptualize" scaffold: the Envelope schema, the RedisBus   *)
(* client over one Redis stream, the BaseAgent receive loop and the        *)
(* Captain agent.                                                          *)
(*                                                                         *)
(* Python values whose type is tested at run time are tagged records:      *)
(*   [str |-> s]        a str            [list |-> <<s1, ...>>] a list     *)
(*   [uuid |-> n]       a uuid.UUID      [uuid_str |-> n] its str() form   *)
(*   [datetime |-> n]   a datetime       [iso_str |-> n]  its isoformat()  *)
(*   [none |-> TRUE]    None                                               *)
(* A dict is a record over its keys (the empty dict is << >>).  A JSON     *)
(* text is [wf |-> TRUE, obj |-> dict] when it decodes to an object and    *)
(* [wf |-> FALSE, text |-> s] when it is not valid JSON.                   *)
(* A stream entry identifier is the entry's position in the log (1, 2, ..),*)
(* which keeps the broker's order; "$" is the distinct value Dollar.       *)
(***************************************************************************)
EXTENDS Integers, Sequences, FiniteSets, TLC

\* ------------------------------------------------------------------ bounds
\* number of entries that producers outside the agent append to the stream
MaxAppends == 3
\* publish calls a program makes itself on its agent's bus, and the entries
\* other producers append while it does
MaxCalls == 2
MaxBusAppends == 1
\* entries appended by producers that put any sender on their envelopes
MaxOpenAppends == 2
\* entries appended by other producers to the stream of the fairly scheduled
\* agent
MaxLiveAppends == 2
\* entries appended by other producers while two agents read the stream
MaxMultiAppends == 2
\* entries the stream is followed for; never reached while every entry of
\* another producer gets at most one response
MaxLog == 2 * MaxAppends + 1

\* ------------------------------------------------------- comm_protocol
Kinds == {"request", "response", "notification", "command"}

PriorityMin == 1
PriorityMax == 5
PriorityDefault == 3

None == [none |-> TRUE]
Str(s) == [str |-> s]
List(q) == [list |-> q]
EmptyDict == << >>

IsList(v) == "list" \in DOMAIN v
Range(q) == {q[i] : i \in DOMAIN q}

\* conint(ge=0, le=5): the lower limit of priority one too low
Envelope_PriorityFromZero(obj, uuid4, utcnow) ==
    LET has(k) == k \in DOMAIN obj
        ok == /\ has("sender")
              /\ has("recipient") /\ DOMAIN obj.recipient \in {{"str"}, {"list"}}
              /\ has("kind") /\ obj.kind \in Kinds
              /\ has("priority") => obj.priority \in (PriorityMin - 1)..PriorityMax
              /\ has("message_id") => DOMAIN obj.message_id \subseteq {"uuid", "uuid_str"}
              /\ has("ts") => DOMAIN obj.ts \subseteq {"datetime", "iso_str"}
    IN  IF ~ok THEN [ok |-> FALSE]
        ELSE [ok  |-> TRUE,
              env |-> [message_id |-> IF has("message_id")
                                      THEN IF "uuid" \in DOMAIN obj.message_id
                                           THEN obj.message_id
                                           ELSE [uuid |-> obj.message_id.uuid_str]
                                      ELSE [uuid |-> uuid4],
                       ts         |-> IF has("ts")
                                      THEN IF "datetime" \in DOMAIN obj.ts
                                           THEN obj.ts
                                           ELSE [datetime |-> obj.ts.iso_str]
                                      ELSE [datetime |-> utcnow],
                       sender     |-> obj.sender,
                       recipient  |-> obj.recipient,
                       priority   |-> IF has("priority") THEN obj.priority
                                                         ELSE PriorityDefault,
                       kind       |-> obj.kind,
                       content    |-> IF has("content") THEN obj.content
                                                        ELSE EmptyDict]]

\* pydantic validation of the keyword/JSON object obj into an Envelope;
\* uuid4 and utcnow are the values the default factories would return
Envelope(obj, uuid4, utcnow) ==
    LET has(k) == k \in DOMAIN obj
        ok == /\ has("sender")
              /\ has("recipient") /\ DOMAIN obj.recipient \in {{"str"}, {"list"}}
              /\ has("kind") /\ obj.kind \in Kinds
              /\ has("priority") => obj.priority \in PriorityMin..PriorityMax
              /\ has("message_id") => DOMAIN obj.message_id \subseteq {"uuid", "uuid_str"}
              /\ has("ts") => DOMAIN obj.ts \subseteq {"datetime", "iso_str"}
    IN  IF ~ok THEN [ok |-> FALSE]
        ELSE [ok  |-> TRUE,
              env |-> [message_id |-> IF has("message_id")
                                      THEN IF "uuid" \in DOMAIN obj.message_id
                                           THEN obj.message_id
                                           ELSE [uuid |-> obj.message_id.uuid_str]
                                      ELSE [uuid |-> uuid4],
                       ts         |-> IF has("ts")
                                      THEN IF "datetime" \in DOMAIN obj.ts
                                           THEN obj.ts
                                           ELSE [datetime |-> obj.ts.iso_str]
                                      ELSE [datetime |-> utcnow],
                       sender     |-> obj.sender,
                       recipient  |-> obj.recipient,
                       priority   |-> IF has("priority") THEN obj.priority
                                                         ELSE PriorityDefault,
                       kind       |-> obj.kind,
                       content    |-> IF has("content") THEN obj.content
                                                        ELSE EmptyDict]]

\* json_encoders with datetime: lambda v: v.date().isoformat(): the time of
\* day is not written
Json_DateOnly(e) ==
    [wf  |-> TRUE,
     obj |-> [message_id |-> [uuid_str |-> e.message_id.uuid],
              ts         |-> [iso_str |-> <<e.ts.datetime[1]>>],
              sender     |-> e.sender,
              recipient  |-> e.recipient,
              priority   |-> e.priority,
              kind       |-> e.kind,
              content    |-> e.content]]

\* Envelope.json(): uuid.UUID -> str, datetime -> isoformat()
Json(e) ==
    [wf  |-> TRUE,
     obj |-> [message_id |-> [uuid_str |-> e.message_id.uuid],
              ts         |-> [iso_str |-> e.ts.datetime],
              sender     |-> e.sender,
              recipient  |-> e.recipient,
              priority   |-> e.priority,
              kind       |-> e.kind,
              content    |-> e.content]]

\* Envelope.parse_raw(raw): JSON decoding, then validation
ParseRaw(raw, uuid4, utcnow) ==
    IF raw.wf THEN Envelope(raw.obj, uuid4, utcnow) ELSE [ok |-> FALSE]

\* --------------------------------------------------- the stream's entries
\* XADD stream * data <json>: one entry with the single field "data"
DataEntry(raw) == [keys |-> {"data"}, data |-> raw]

\* data.get("data", "") in place of data.get("data")
DataGet_EmptyDefault(entry) ==
    IF "data" \in entry.keys THEN entry.data ELSE [wf |-> FALSE, text |-> ""]

\* dict.get("data")
DataGet(entry) == IF "data" \in entry.keys THEN entry.data ELSE None

\* What other producers put on the stream.
\* spec section 8, scenario 6: a request addressed to the Captain
ReqCaptain ==
    DataEntry([wf |-> TRUE,
               obj |-> [message_id |-> [uuid_str |-> <<"producer", 1>>], ts |-> [iso_str |-> <<"producer", 1>>],
                        sender |-> "sergeant", recipient |-> Str("captain"),
                        priority |-> 2, kind |-> "request",
                        content |-> [task |-> "patrol"]]])
\* lowest priority, to everybody, content left to its default
Broadcast ==
    DataEntry([wf |-> TRUE,
               obj |-> [message_id |-> [uuid_str |-> <<"producer", 2>>], ts |-> [iso_str |-> <<"producer", 2>>],
                        sender |-> "detective", recipient |-> Str("broadcast"),
                        priority |-> 5, kind |-> "notification"]])
\* a list recipient naming the Captain, priority left to its default
ListCaptain ==
    DataEntry([wf |-> TRUE,
               obj |-> [message_id |-> [uuid_str |-> <<"producer", 3>>], ts |-> [iso_str |-> <<"producer", 3>>],
                        sender |-> "detective",
                        recipient |-> List(<<"sergeant", "captain">>),
                        kind |-> "command", content |-> EmptyDict]])
\* a list recipient that names neither the Captain nor, as a string, broadcast
ListOthers ==
    DataEntry([wf |-> TRUE,
               obj |-> [message_id |-> [uuid_str |-> <<"producer", 4>>], ts |-> [iso_str |-> <<"producer", 4>>],
                        sender |-> "detective",
                        recipient |-> List(<<"sergeant", "broadcast">>),
                        priority |-> 1, kind |-> "request",
                        content |-> EmptyDict]])
\* valid JSON that violates the schema (priority above 5)
BadPriority ==
    DataEntry([wf |-> TRUE,
               obj |-> [message_id |-> [uuid_str |-> <<"producer", 5>>], ts |-> [iso_str |-> <<"producer", 5>>],
                        sender |-> "sergeant", recipient |-> Str("captain"),
                        priority |-> 6, kind |-> "request",
                        content |-> EmptyDict]])
\* a payload that is not JSON
NotJson == DataEntry([wf |-> FALSE, text |-> "{not json"])
\* an entry without the "data" field
NoData == [keys |-> {"other"}, data |-> None]

Producible ==
    {ReqCaptain, Broadcast, ListCaptain, ListOthers, BadPriority, NotJson, NoData}

\* Envelopes of producers that do not keep to agent identifiers as senders.
\* sender: str accepts the empty string
EmptySender ==
    DataEntry([wf |-> TRUE,
               obj |-> [message_id |-> [uuid_str |-> <<"producer", 6>>], ts |-> [iso_str |-> <<"producer", 6>>],
                        sender |-> "", recipient |-> Str("captain"),
                        priority |-> 3, kind |-> "request",
                        content |-> EmptyDict]])
\* the sender is the word that addresses everybody
FromBroadcast ==
    DataEntry([wf |-> TRUE,
               obj |-> [message_id |-> [uuid_str |-> <<"producer", 7>>], ts |-> [iso_str |-> <<"producer", 7>>],
                        sender |-> "broadcast", recipient |-> Str("captain"),
                        priority |-> 3, kind |-> "request",
                        content |-> EmptyDict]])
AnySender == {ReqCaptain, EmptySender, FromBroadcast}
\* what a third producer sends to several agents at once
ToSeveral == {Broadcast, ListCaptain, ListOthers}

\* ------------------------------------------------------------------ state
AgentIds == {"captain", "sergeant"}

\* the stream identifier "$": only entries appended after the read arrives
Dollar == -1

\* the identifier of the n-th entry of the stream; EntryId(0) precedes them all
EntryId(n) == n

\* last_id = "0": the whole stream, from its first entry
SubscribeDefault_FromStart == EntryId(0)

\* the default of subscribe's last_id parameter
SubscribeDefault == Dollar

\* the client object the n-th successful aioredis.from_url of a bus returns
Redis(n) == [redis |-> n]

VARIABLES
    log,        \* the broker's stream: the sequence of entries, in append order
    budget,     \* entries other producers may still append
    bus,        \* bus[a]: the RedisBus of agent a's process: [redis]
    sub,        \* sub[a]: the frame of run_forever / subscribe: [pc, last_id, pos]
    tasks,      \* tasks[a]: the _safe_handle tasks run_forever created, in order
    stdout,     \* stdout[a]: the lines printed, as a set of <<line, entry id>>
    origin,     \* history: origin[i] says who appended log[i]
    hist,       \* history of agent a's subscription and publishes; raised: the
                \* tasks whose handle raised, resumed: a task was created after
                \* one had, sub_failed: from_url or XREAD raised in subscribe
    codec,      \* an Envelope built, serialized and parsed back outside any agent:
                \* [pc, args, env, raw, back]
    calls       \* the publish calls a program makes itself on the bus it gave to
                \* its agent: a sequence of [st, payload, redis]

vars == <<log, budget, bus, sub, tasks, stdout, origin, hist, codec, calls>>

External == [by |-> "external", task |-> 0]

\* no Envelope is being built outside the agents
CodecIdle == [pc |-> "idle"]

Init ==
    /\ codec = CodecIdle
    /\ calls = << >>
    /\ log = << >>
    /\ origin = << >>
    /\ budget = MaxAppends
    /\ bus = [a \in AgentIds |-> [redis |-> None]]
    /\ sub = [a \in AgentIds |->
                [pc |-> IF a = "captain" THEN "new" ELSE "off",
                 last_id |-> SubscribeDefault, pos |-> 0]]
    /\ tasks = [a \in AgentIds |-> << >>]
    /\ stdout = [a \in AgentIds |-> {}]
    /\ hist = [a \in AgentIds |->
                [processed |-> << >>, yielded |-> << >>, raised |-> {},
                 resumed |-> FALSE, sub_failed |-> FALSE,
                 issued_at |-> << >>, first_pos |-> << >>, connects |-> 0]]

\* uuid.uuid4(): a value no other call returns; the call is named by where and
\* for which entry it is made
Uuid4(call) == call

\* datetime.utcnow(): the instant of the call, named like the call
UtcNow(call) == call

\* ------------------------------------------------------------ agent_core
\* isinstance(rcpt, list) without the membership test
ShouldHandle_AnyList(agent_id, envelope) ==
    LET rcpt == envelope.recipient
    IN  \/ rcpt = Str(agent_id)
        \/ rcpt = Str("broadcast")
        \/ IsList(rcpt)

\* BaseAgent._should_handle
ShouldHandle(agent_id, envelope) ==
    LET rcpt == envelope.recipient
    IN  \/ rcpt = Str(agent_id)
        \/ rcpt = Str("broadcast")
        \/ (IsList(rcpt) /\ agent_id \in Range(rcpt.list))

\* asyncio.create_task(self._safe_handle(envelope)): the task is only created
CreateTask(s, message_id, envelope) ==
    [s EXCEPT !.tasks = Append(@, [st |-> "pending", id |-> message_id,
                                   envelope |-> envelope, payload |-> None])]

\* the body of run_forever's "async for", run for one yielded envelope
RunForeverBody(agent_id, s, message_id, envelope) ==
    IF ShouldHandle(agent_id, envelope)
    THEN CreateTask(s, message_id, envelope)
    ELSE s

\* last_id = message_id placed after the "continue" of a payload-less entry
SubscribeEntry_CursorAfterSkip(agent_id, s) ==
    LET message_id == Head(s.pending)
        raw == DataGet(log[message_id])
        s1 == [s EXCEPT !.pending = Tail(@),
                        !.processed = Append(@, message_id)]
        s2 == [s1 EXCEPT !.last_id = message_id]
    IN  IF raw = None
        THEN s1
        ELSE LET r == ParseRaw(raw, Uuid4(<<agent_id, "parse_raw", message_id>>),
                                   UtcNow(<<agent_id, "parse_raw", message_id>>))
             IN  IF r.ok
                 THEN RunForeverBody(agent_id,
                                     [s2 EXCEPT !.yielded = Append(@, message_id)],
                                     message_id, r.env)
                 ELSE [s2 EXCEPT !.stdout =
                          @ \cup {<<"[RedisBus] Failed to parse envelope", message_id>>}]

\* the try/except around the whole "for", the cursor set to the end of the
\* answer: a parse failure gives up the rest of the answer
SubscribeEntry_AbandonBatch(agent_id, s) ==
    LET message_id == Head(s.pending)
        raw == DataGet(log[message_id])
        s1 == [s EXCEPT !.pending = Tail(@),
                        !.last_id = message_id,
                        !.processed = Append(@, message_id)]
    IN  IF raw = None
        THEN s1
        ELSE LET r == ParseRaw(raw, Uuid4(<<agent_id, "parse_raw", message_id>>),
                                   UtcNow(<<agent_id, "parse_raw", message_id>>))
             IN  IF r.ok
                 THEN RunForeverBody(agent_id,
                                     [s1 EXCEPT !.yielded = Append(@, message_id)],
                                     message_id, r.env)
                 ELSE [s1 EXCEPT !.pending = << >>,
                                 !.last_id = s.pending[Len(s.pending)],
                                 !.stdout =
                          @ \cup {<<"[RedisBus] Failed to parse envelope", message_id>>}]

\* One pass of subscribe's inner "for message_id, data in messages" over the
\* head of s.pending, with the consumer's loop body where the envelope is
\* yielded.  s is the part of the process state the pass reads and writes.
SubscribeEntry(agent_id, s) ==
    LET message_id == Head(s.pending)
        raw == DataGet(log[message_id])
        s1 == [s EXCEPT !.pending = Tail(@),
                        !.last_id = message_id,
                        !.processed = Append(@, message_id)]
    IN  IF raw = None
        THEN s1
        ELSE LET r == ParseRaw(raw, Uuid4(<<agent_id, "parse_raw", message_id>>),
                                   UtcNow(<<agent_id, "parse_raw", message_id>>))
             IN  IF r.ok
                 THEN RunForeverBody(agent_id,
                                     [s1 EXCEPT !.yielded = Append(@, message_id)],
                                     message_id, r.env)
                 ELSE [s1 EXCEPT !.stdout =
                          @ \cup {<<"[RedisBus] Failed to parse envelope", message_id>>}]

\* the "for" over the messages of one XREAD answer, consumed without a
\* suspension point (the state after a pass is bound as a value, so that each
\* pass is evaluated once)
RECURSIVE SubscribeLoop(_, _)
SubscribeLoop(agent_id, s) ==
    IF s.pending = << >> THEN s
    ELSE CHOOSE r \in {SubscribeLoop(agent_id, next) :
                          next \in {SubscribeEntry(agent_id, s)}} : TRUE

\* the event loop of agent a's process is running (asyncio.run has not ended)
Running(a) == sub[a].pc \in {"connecting", "xread", "blocked"}

\* asyncio.run ends when run_forever raises: what is still scheduled is cancelled
Cancelled(ts) ==
    [k \in DOMAIN ts |->
        IF ts[k].st \in {"pending", "connecting", "xadd"}
        THEN [ts[k] EXCEPT !.st = "cancelled"] ELSE ts[k]]

\* every XREAD sent with "$" instead of the cursor
SendXread_AlwaysDollar(f) == [f EXCEPT !.pc = "xread", !.last_id = Dollar]

\* subscribe sends XREAD {stream: last_id} BLOCK 0 and suspends.  What an
\* XREAD after an explicit identifier answers does not depend on when the
\* broker takes it, so only the taking of a "$" read is a step (BrokerXread).
SendXread(f) ==
    IF f.last_id = Dollar THEN [f EXCEPT !.pc = "xread"]
    ELSE [f EXCEPT !.pc = "blocked", !.pos = f.last_id]

\* the history of the first XREAD of a subscription
Issued(h, last_id) ==
    IF h.issued_at # << >> THEN h
    ELSE [h EXCEPT !.issued_at = <<Len(log)>>,
                   !.first_pos = IF last_id = Dollar THEN << >> ELSE <<last_id>>]

\* ---------------------------------------------------------------- actions
\* The stream is followed for as long as some agent process is about to run
\* or running; what producers do after the last one has ended is not modelled.
Live == \E a \in AgentIds : sub[a].pc \in {"new", "connecting", "xread", "blocked"}

\* another producer appends an entry to the stream
ExternalAppend(entry) ==
    /\ Live
    /\ budget > 0
    /\ budget' = budget - 1
    /\ log' = Append(log, entry)
    /\ origin' = Append(origin, External)
    /\ UNCHANGED <<codec, calls, bus, sub, tasks, stdout, hist>>

\* main(): asyncio.run(captain.run_forever()) up to the first suspension, the
\* await of aioredis.from_url in _ensure_conn, called by subscribe
RunForever(a) ==
    /\ sub[a].pc = "new"
    /\ stdout' = [stdout EXCEPT ![a] = @ \cup {<<"starting event loop", 0>>}]
    /\ IF bus[a].redis = None
       THEN /\ sub' = [sub EXCEPT ![a].pc = "connecting",
                                  ![a].last_id = SubscribeDefault]
            /\ hist' = hist
       ELSE /\ sub' = [sub EXCEPT ![a] = SendXread([@ EXCEPT !.last_id = SubscribeDefault])]
            /\ hist' = [hist EXCEPT ![a] = Issued(@, SubscribeDefault)]
    /\ UNCHANGED <<codec, calls, log, budget, bus, tasks, origin>>

\* the client kept in a local of subscribe, self._redis left as it was
SubConnected_ClientNotStored(a) ==
    /\ sub[a].pc = "connecting"
    /\ sub' = [sub EXCEPT ![a] = SendXread(@)]
    /\ hist' = [hist EXCEPT ![a] = Issued([@ EXCEPT !.connects = @ + 1],
                                           sub[a].last_id)]
    /\ UNCHANGED <<codec, calls, log, budget, bus, tasks, stdout, origin>>

\* from_url returns: _ensure_conn stores the client, subscribe sends its first XREAD
SubConnected(a) ==
    /\ sub[a].pc = "connecting"
    /\ bus' = [bus EXCEPT ![a].redis = Redis(hist[a].connects + 1)]
    /\ sub' = [sub EXCEPT ![a] = SendXread(@)]
    /\ hist' = [hist EXCEPT ![a] = Issued([@ EXCEPT !.connects = @ + 1],
                                           sub[a].last_id)]
    /\ UNCHANGED <<codec, calls, log, budget, tasks, stdout, origin>>

\* from_url raises: the failure leaves subscribe and run_forever
SubConnectFail(a) ==
    /\ sub[a].pc = "connecting"
    /\ sub' = [sub EXCEPT ![a].pc = "failed"]
    /\ tasks' = [tasks EXCEPT ![a] = Cancelled(@)]
    /\ hist' = [hist EXCEPT ![a].sub_failed = TRUE]
    /\ UNCHANGED <<codec, calls, log, budget, bus, stdout, origin>>

\* the broker takes the XREAD ... BLOCK 0: "$" becomes the identifier of the
\* last entry the stream holds at that moment
BrokerXread(a) ==
    /\ sub[a].pc = "xread"
    /\ LET pos == IF sub[a].last_id = Dollar THEN Len(log) ELSE sub[a].last_id
       IN  /\ sub' = [sub EXCEPT ![a].pc = "blocked", ![a].pos = pos]
           /\ hist' = [hist EXCEPT ![a].first_pos = IF @ = << >> THEN <<pos>> ELSE @]
    /\ UNCHANGED <<codec, calls, log, budget, bus, tasks, stdout, origin>>

\* the await of xread inside the try/except of the entries: the failure is
\* printed and the loop sends the XREAD again
XreadFail_LoggedAndSkipped(a) ==
    /\ sub[a].pc \in {"xread", "blocked"}
    /\ stdout' = [stdout EXCEPT ![a] =
          @ \cup {<<"[RedisBus] Failed to parse envelope", 0>>}]
    /\ hist' = [hist EXCEPT ![a].sub_failed = TRUE]
    /\ UNCHANGED <<codec, calls, log, budget, bus, sub, tasks, origin>>

\* the XREAD fails: the failure leaves subscribe and run_forever
XreadFail(a) ==
    /\ sub[a].pc \in {"xread", "blocked"}
    /\ sub' = [sub EXCEPT ![a].pc = "failed"]
    /\ tasks' = [tasks EXCEPT ![a] = Cancelled(@)]
    /\ hist' = [hist EXCEPT ![a].sub_failed = TRUE]
    /\ UNCHANGED <<codec, calls, log, budget, bus, stdout, origin>>

\* the response built without priority=envelope.priority
Response_DefaultPriority(agent_id, envelope, uuid4, utcnow) ==
    Envelope([sender    |-> agent_id,
              recipient |-> Str(envelope.sender),
              kind      |-> "response",
              content   |-> [status |-> "ack", echo |-> envelope.content]],
             uuid4, utcnow)

\* recipient=envelope.recipient: the response goes where the envelope went
Response_ToRecipient(agent_id, envelope, uuid4, utcnow) ==
    Envelope([sender    |-> agent_id,
              recipient |-> envelope.recipient,
              priority  |-> envelope.priority,
              kind      |-> "response",
              content   |-> [status |-> "ack", echo |-> envelope.content]],
             uuid4, utcnow)

\* CaptainAgent.handle builds the response of envelope
Response(agent_id, envelope, uuid4, utcnow) ==
    Envelope([sender    |-> agent_id,
              recipient |-> Str(envelope.sender),
              priority  |-> envelope.priority,
              kind      |-> "response",
              content   |-> [status |-> "ack", echo |-> envelope.content]],
             uuid4, utcnow)

\* The first step of a created task: _safe_handle calls handle, which prints,
\* builds the response and calls publish; publish runs up to its first
\* suspension (from_url when the bus has no client yet, the XADD otherwise).
\* A failure building the response is caught by _safe_handle.
HandleStart(agent_id, redis, t) ==
    LET r == Response(agent_id, t.envelope, Uuid4(<<agent_id, "handle", t.id>>),
                      UtcNow(<<agent_id, "handle", t.id>>))
    IN  IF ~r.ok
        THEN [t EXCEPT !.st = "caught"]
        ELSE [t EXCEPT !.st = IF redis = None THEN "connecting" ELSE "xadd",
                       !.payload = Json(r.env)]

\* asyncio runs the first step of every task created since the last
\* suspension, in creation order, as soon as run_forever suspends (in the
\* next XREAD) and before it handles any other event of the process
RunReady(agent_id, redis, s) ==
    LET ready == {k \in DOMAIN s.tasks : s.tasks[k].st = "pending"}
        after == [k \in DOMAIN s.tasks |->
                    IF k \in ready THEN HandleStart(agent_id, redis, s.tasks[k])
                    ELSE s.tasks[k]]
    IN  [s EXCEPT !.tasks = after,
                  !.stdout = @ \cup {<<"[Captain] Handling", after[k].id>> : k \in ready}
                               \cup {<<"Error while handling message", after[k].id>> :
                                        k \in {j \in ready : after[j].st = "caught"}}]

\* the answer iterated most urgent first (priority 1 before priority 5)
PriorityOf(message_id) ==
    LET raw == DataGet(log[message_id])
    IN  IF raw # None /\ ParseRaw(raw, << >>, << >>).ok
        THEN ParseRaw(raw, << >>, << >>).env.priority
        ELSE PriorityDefault
RECURSIVE ByPriority(_)
ByPriority(ids) ==
    IF ids = {} THEN << >>
    ELSE LET first == CHOOSE x \in ids : \A y \in ids :
                         \/ PriorityOf(x) < PriorityOf(y)
                         \/ (PriorityOf(x) = PriorityOf(y) /\ x <= y)
         IN  <<first>> \o ByPriority(ids \ {first})
Messages_ByPriority(pos) == ByPriority((pos + 1)..Len(log))

\* one cursor for all readers of the stream (a consumer group): an entry some
\* reader has taken is not answered to another
Messages_Unclaimed(pos) ==
    LET Unclaimed(i) == \A b \in AgentIds : i \notin Range(hist[b].processed)
    IN  SelectSeq([i \in 1..(Len(log) - pos) |-> pos + i], Unclaimed)

\* the entries an XREAD after pos answers with, as subscribe iterates them
Messages(pos) == [i \in 1..(Len(log) - pos) |-> pos + i]

\* subscribe consumes the messages of one XREAD answer, run_forever filters
\* and dispatches each yielded envelope, subscribe sends the next XREAD with
\* the advanced last_id, and the tasks just created run their first step
Deliver(a, messages) ==
    \E consumed \in {SubscribeLoop(a, [pending   |-> messages,
                                       last_id   |-> sub[a].last_id,
                                       tasks     |-> tasks[a],
                                       stdout    |-> stdout[a],
                                       processed |-> hist[a].processed,
                                       yielded   |-> hist[a].yielded])} :
    \E s \in {RunReady(a, bus[a].redis, consumed)} :
        /\ sub' = [sub EXCEPT ![a] = SendXread([@ EXCEPT !.last_id = s.last_id])]
        /\ tasks' = [tasks EXCEPT ![a] = s.tasks]
        /\ stdout' = [stdout EXCEPT ![a] = s.stdout]
        /\ hist' = [hist EXCEPT ![a].processed = s.processed,
                                ![a].yielded = s.yielded,
                                ![a].resumed =
                                    \/ @
                                    \/ /\ hist[a].raised # {}
                                       /\ Len(s.tasks) > Len(tasks[a])]
        /\ UNCHANGED <<codec, calls, log, budget, bus, origin>>

\* the handler awaited in the loop: no answer is taken while one is in flight
XreadReturn_AwaitsHandlers(a) ==
    /\ sub[a].pc = "blocked"
    /\ Len(log) > sub[a].pos
    /\ \A k \in DOMAIN tasks[a] : tasks[a][k].st \in {"done", "caught"}
    /\ Deliver(a, Messages(sub[a].pos))

\* the XREAD answers with every entry after pos
XreadReturn(a) ==
    /\ sub[a].pc = "blocked"
    /\ Len(log) > sub[a].pos
    /\ Deliver(a, Messages(sub[a].pos))

\* handlers run one after the other: the XADD of task k is answered only
\* when every earlier task has finished
XaddOk_InOrder(a, k) ==
    /\ Running(a)
    /\ k \in DOMAIN tasks[a]
    /\ tasks[a][k].st = "xadd"
    /\ \A j \in DOMAIN tasks[a] : j < k => tasks[a][j].st \in {"done", "caught"}
    /\ Len(log) < MaxLog
    /\ log' = Append(log, DataEntry(tasks[a][k].payload))
    /\ origin' = Append(origin, [by |-> a, task |-> k])
    /\ tasks' = [tasks EXCEPT ![a][k].st = "done"]
    /\ UNCHANGED <<codec, calls, budget, bus, sub, stdout, hist>>

\* the XADD of task k is answered: the entry is on the stream, publish, handle
\* and _safe_handle return
XaddOk(a, k) ==
    /\ Running(a)
    /\ k \in DOMAIN tasks[a]
    /\ tasks[a][k].st = "xadd"
    /\ Len(log) < MaxLog         \* the stream is not followed any further
    /\ log' = Append(log, DataEntry(tasks[a][k].payload))
    /\ origin' = Append(origin, [by |-> a, task |-> k])
    /\ tasks' = [tasks EXCEPT ![a][k].st = "done"]
    /\ UNCHANGED <<codec, calls, budget, bus, sub, stdout, hist>>

\* no try/except around handle, the handler awaited by run_forever: the
\* failure leaves run_forever
XaddFail_Propagates(a, k) ==
    /\ Running(a)
    /\ k \in DOMAIN tasks[a]
    /\ tasks[a][k].st = "xadd"
    /\ sub' = [sub EXCEPT ![a].pc = "failed"]
    /\ tasks' = [tasks EXCEPT ![a] = Cancelled(@)]
    /\ hist' = [hist EXCEPT ![a].raised = @ \cup {k}]
    /\ UNCHANGED <<codec, calls, log, budget, bus, stdout, origin>>

\* publish catches the failure and sends the XADD again
XaddFail_Retries(a, k) ==
    /\ Running(a)
    /\ k \in DOMAIN tasks[a]
    /\ tasks[a][k].st = "xadd"
    /\ hist' = [hist EXCEPT ![a].raised = @ \cup {k}]
    /\ UNCHANGED <<codec, calls, log, budget, bus, sub, tasks, stdout, origin>>

\* the XADD of task k fails: publish and handle raise, _safe_handle catches
\* the failure and prints it
XaddFail(a, k) ==
    /\ Running(a)
    /\ k \in DOMAIN tasks[a]
    /\ tasks[a][k].st = "xadd"
    /\ tasks' = [tasks EXCEPT ![a][k].st = "caught"]
    /\ stdout' = [stdout EXCEPT ![a] =
          @ \cup {<<"Error while handling message", tasks[a][k].id>>}]
    /\ hist' = [hist EXCEPT ![a].raised = @ \cup {k}]
    /\ UNCHANGED <<codec, calls, log, budget, bus, sub, origin>>

\* the steps of agent a's process
AgentStep(a) ==
    \/ RunForever(a)
    \/ SubConnected(a)
    \/ SubConnectFail(a)
    \/ BrokerXread(a)
    \/ XreadFail(a)
    \/ XreadReturn(a)
    \/ \E k \in DOMAIN tasks[a] : XaddOk(a, k)
    \/ \E k \in DOMAIN tasks[a] : XaddFail(a, k)

Next ==
    \/ \E entry \in Producible : ExternalAppend(entry)
    \/ \E a \in AgentIds : AgentStep(a)

Spec == Init /\ [][Next]_vars

\* ------------------------------------------ producers with any sender
\* main() with producers whose envelopes carry any sender
OpenInit ==
    /\ codec = CodecIdle
    /\ calls = << >>
    /\ log = << >>
    /\ origin = << >>
    /\ budget = MaxOpenAppends
    /\ bus = [a \in AgentIds |-> [redis |-> None]]
    /\ sub = [a \in AgentIds |->
                [pc |-> IF a = "captain" THEN "new" ELSE "off",
                 last_id |-> SubscribeDefault, pos |-> 0]]
    /\ tasks = [a \in AgentIds |-> << >>]
    /\ stdout = [a \in AgentIds |-> {}]
    /\ hist = [a \in AgentIds |->
                [processed |-> << >>, yielded |-> << >>, raised |-> {},
                 resumed |-> FALSE, sub_failed |-> FALSE,
                 issued_at |-> << >>, first_pos |-> << >>, connects |-> 0]]

OpenNext ==
    \/ \E entry \in AnySender : ExternalAppend(entry)
    \/ \E a \in AgentIds : AgentStep(a)

OpenSpec == OpenInit /\ [][OpenNext]_vars

\* ------------------------------------------------- fair scheduling
\* main() on a broker that answers a blocked XREAD once the stream holds an
\* entry after its position, and an event loop that resumes subscribe with
\* the answer: an answer that stays available is eventually taken, unless
\* the read fails first
LiveInit ==
    /\ codec = CodecIdle
    /\ calls = << >>
    /\ log = << >>
    /\ origin = << >>
    /\ budget = MaxLiveAppends
    /\ bus = [a \in AgentIds |-> [redis |-> None]]
    /\ sub = [a \in AgentIds |->
                [pc |-> IF a = "captain" THEN "new" ELSE "off",
                 last_id |-> SubscribeDefault, pos |-> 0]]
    /\ tasks = [a \in AgentIds |-> << >>]
    /\ stdout = [a \in AgentIds |-> {}]
    /\ hist = [a \in AgentIds |->
                [processed |-> << >>, yielded |-> << >>, raised |-> {},
                 resumed |-> FALSE, sub_failed |-> FALSE,
                 issued_at |-> << >>, first_pos |-> << >>, connects |-> 0]]

LiveNext ==
    \/ \E entry \in Producible : ExternalAppend(entry)
    \/ \E a \in AgentIds : AgentStep(a)

LiveSpec ==
    /\ LiveInit
    /\ [][LiveNext]_vars
    /\ \A a \in AgentIds : WF_vars(XreadReturn(a))

\* ------------------------------------------- two agents on one stream
\* two processes, each with its own RedisBus and its own run_forever; the
\* second agent runs the only handler the repository has under its own
\* identifier
MultiInit ==
    /\ codec = CodecIdle
    /\ calls = << >>
    /\ log = << >>
    /\ origin = << >>
    /\ budget = MaxMultiAppends
    /\ bus = [a \in AgentIds |-> [redis |-> None]]
    /\ sub = [a \in AgentIds |->
                [pc |-> "new", last_id |-> SubscribeDefault, pos |-> 0]]
    /\ tasks = [a \in AgentIds |-> << >>]
    /\ stdout = [a \in AgentIds |-> {}]
    /\ hist = [a \in AgentIds |->
                [processed |-> << >>, yielded |-> << >>, raised |-> {},
                 resumed |-> FALSE, sub_failed |-> FALSE,
                 issued_at |-> << >>, first_pos |-> << >>, connects |-> 0]]

\* a step of agent a while its subscription stays up
Subscribed(a) ==
    \/ RunForever(a)
    \/ SubConnected(a)
    \/ BrokerXread(a)
    \/ XreadReturn(a)
    \/ \E k \in DOMAIN tasks[a] : XaddOk(a, k)
    \/ \E k \in DOMAIN tasks[a] : XaddFail(a, k)

\* the producer sends each of its messages once
Send(entry) ==
    /\ entry \notin Range(log)
    /\ ExternalAppend(entry)

MultiNext ==
    \/ \E entry \in ToSeveral : Send(entry)
    \/ \E a \in AgentIds : Subscribed(a)

MultiSpec == MultiInit /\ [][MultiNext]_vars

\* --------------------------------------------- the Envelope on its own
\* Keyword arguments tried on Envelope(...): per field, << >> when the
\* argument is left out and <<v>> when it is v.
SenderArgs    == {<< >>, <<"sergeant">>, <<"">>}
RecipientArgs == {<< >>, <<Str("captain")>>, <<Str("broadcast")>>,
                  <<List(<<"sergeant", "captain">>)>>, <<None>>}
PriorityArgs  == {<< >>} \cup {<<p>> : p \in (PriorityMin - 1)..(PriorityMax + 1)}
KindArgs      == {<< >>, <<"unknown">>} \cup {<<k>> : k \in Kinds}
ContentArgs   == {<< >>, <<EmptyDict>>, <<[task |-> "patrol"]>>}
MessageIdArgs == {<< >>, <<[uuid |-> <<"given", 7>>]>>}
TsArgs        == {<< >>, <<[datetime |-> <<20240131, 235959>>]>>}

\* the dict of the arguments that are given
Kwargs(given) ==
    [k \in {f \in DOMAIN given : given[f] # << >>} |-> given[k][1]]

EnvelopeArgs ==
    {Kwargs([sender |-> s, recipient |-> r, priority |-> p, kind |-> k,
             content |-> c, message_id |-> m, ts |-> t]) :
        s \in SenderArgs, r \in RecipientArgs, p \in PriorityArgs,
        k \in KindArgs, c \in ContentArgs, m \in MessageIdArgs, t \in TsArgs}

\* a program about to call Envelope(**args); no agent process exists
EnvelopeInit ==
    /\ codec \in {[pc |-> "args", args |-> args] : args \in EnvelopeArgs}
    /\ calls = << >>
    /\ log = << >>
    /\ origin = << >>
    /\ budget = 0
    /\ bus = [a \in AgentIds |-> [redis |-> None]]
    /\ sub = [a \in AgentIds |-> [pc |-> "off", last_id |-> SubscribeDefault, pos |-> 0]]
    /\ tasks = [a \in AgentIds |-> << >>]
    /\ stdout = [a \in AgentIds |-> {}]
    /\ hist = [a \in AgentIds |->
                [processed |-> << >>, yielded |-> << >>, raised |-> {},
                 resumed |-> FALSE, sub_failed |-> FALSE,
                 issued_at |-> << >>, first_pos |-> << >>, connects |-> 0]]

\* Envelope(**args): the validated Envelope, or the ValidationError
Construct ==
    /\ codec.pc = "args"
    /\ LET r == Envelope(codec.args, Uuid4(<<"program", "Envelope">>),
                          UtcNow(<<"program", "Envelope">>))
       IN  codec' = IF r.ok THEN [codec EXCEPT !.pc = "built"] @@ [env |-> r.env]
                           ELSE [codec EXCEPT !.pc = "invalid"]
    /\ UNCHANGED <<log, budget, bus, sub, tasks, stdout, origin, hist, calls>>

\* envelope.json(), as publish calls it
Serialize ==
    /\ codec.pc = "built"
    /\ codec' = [codec EXCEPT !.pc = "json"] @@ [raw |-> Json(codec.env)]
    /\ UNCHANGED <<log, budget, bus, sub, tasks, stdout, origin, hist, calls>>

\* Envelope.parse_raw(raw), as subscribe calls it
Deserialize ==
    /\ codec.pc = "json"
    /\ codec' = [codec EXCEPT !.pc = "parsed"] @@
                    [back |-> ParseRaw(codec.raw, Uuid4(<<"program", "parse_raw">>),
                                       UtcNow(<<"program", "parse_raw">>))]
    /\ UNCHANGED <<log, budget, bus, sub, tasks, stdout, origin, hist, calls>>

EnvelopeNext == Construct \/ Serialize \/ Deserialize

EnvelopeSpec == EnvelopeInit /\ [][EnvelopeNext]_vars

\* ------------------------- publish and subscribe on one bus, concurrently
\* The program of main() with publish calls of its own: it gives the bus to
\* the Captain, starts run_forever and, in the same event loop, calls
\* bus.publish itself MaxCalls times (asyncio.gather or create_task).
Owner == "captain"

\* what the program's k-th call publishes: a notice to the Sergeant
Notice(k) ==
    Envelope([sender |-> "program", recipient |-> Str("sergeant"),
              kind |-> "notification", content |-> [n |-> k]],
             Uuid4(<<"program", "publish", k>>), UtcNow(<<"program", "publish", k>>)).env

BusInit ==
    /\ codec = CodecIdle
    /\ calls = [k \in 1..MaxCalls |->
                  [st |-> "new", payload |-> Json(Notice(k)), redis |-> None]]
    /\ log = << >>
    /\ origin = << >>
    /\ budget = MaxBusAppends
    /\ bus = [a \in AgentIds |-> [redis |-> None]]
    /\ sub = [a \in AgentIds |->
                [pc |-> IF a = Owner THEN "new" ELSE "off",
                 last_id |-> SubscribeDefault, pos |-> 0]]
    /\ tasks = [a \in AgentIds |-> << >>]
    /\ stdout = [a \in AgentIds |-> {}]
    /\ hist = [a \in AgentIds |->
                [processed |-> << >>, yielded |-> << >>, raised |-> {},
                 resumed |-> FALSE, sub_failed |-> FALSE,
                 issued_at |-> << >>, first_pos |-> << >>, connects |-> 0]]

\* the program's event loop is running
Alive == sub[Owner].pc \in {"new", "connecting", "xread", "blocked"}

\* publish(envelope) up to its first suspension: _ensure_conn awaits from_url
\* when self._redis is None, else publish awaits the XADD on self._redis
PublishCall(k) ==
    /\ Alive
    /\ calls[k].st = "new"
    /\ calls' = [calls EXCEPT ![k] =
          IF bus[Owner].redis = None
          THEN [@ EXCEPT !.st = "connecting"]
          ELSE [@ EXCEPT !.st = "xadd", !.redis = bus[Owner].redis]]
    /\ UNCHANGED <<log, budget, bus, sub, tasks, stdout, origin, hist, codec>>

\* from_url returns to the _ensure_conn of call k: the client is assigned to
\* self._redis, returned, and publish awaits the XADD on it
PubConnected(k) ==
    /\ Alive
    /\ calls[k].st = "connecting"
    /\ bus' = [bus EXCEPT ![Owner].redis = Redis(hist[Owner].connects + 1)]
    /\ hist' = [hist EXCEPT ![Owner].connects = @ + 1]
    /\ calls' = [calls EXCEPT ![k].st = "xadd",
                              ![k].redis = Redis(hist[Owner].connects + 1)]
    /\ UNCHANGED <<log, budget, sub, tasks, stdout, origin, codec>>

\* from_url raises in call k: publish raises to its caller
PubConnectFail(k) ==
    /\ Alive
    /\ calls[k].st = "connecting"
    /\ calls' = [calls EXCEPT ![k].st = "raised"]
    /\ UNCHANGED <<log, budget, bus, sub, tasks, stdout, origin, hist, codec>>

\* the XADD of call k is answered: the entry is on the stream
PubXaddOk(k) ==
    /\ Alive
    /\ calls[k].st = "xadd"
    /\ log' = Append(log, DataEntry(calls[k].payload))
    /\ origin' = Append(origin, [by |-> "program", task |-> k])
    /\ calls' = [calls EXCEPT ![k].st = "done"]
    /\ UNCHANGED <<budget, bus, sub, tasks, stdout, hist, codec>>

\* the XADD of call k fails: publish raises to its caller
PubXaddFail(k) ==
    /\ Alive
    /\ calls[k].st = "xadd"
    /\ calls' = [calls EXCEPT ![k].st = "raised"]
    /\ UNCHANGED <<log, budget, bus, sub, tasks, stdout, origin, hist, codec>>

BusNext ==
    \/ \E entry \in Producible : ExternalAppend(entry)
    \/ \E a \in AgentIds : AgentStep(a)
    \/ \E k \in DOMAIN calls : PublishCall(k)
    \/ \E k \in DOMAIN calls : PubConnected(k)
    \/ \E k \in DOMAIN calls : PubConnectFail(k)
    \/ \E k \in DOMAIN calls : PubXaddOk(k)
    \/ \E k \in DOMAIN calls : PubXaddFail(k)

BusSpec == BusInit /\ [][BusNext]_vars
\* ----------------------------------------------------- what is checked
\* the entry has no "data" field
NoPayload(i) == "data" \notin log[i].keys
\* what the payload of entry i deserializes to
Parsed(i) == ParseRaw(log[i].data, << >>, << >>)
\* the entry has a payload that does not deserialize into an Envelope
Malformed(i) == ~NoPayload(i) /\ ~Parsed(i).ok
\* the entry carries a valid Envelope
Valid(i) == ~NoPayload(i) /\ Parsed(i).ok

\* the recipient of envelope e names agent a: the rule of the specification
Addressed(a, e) ==
    \/ e.recipient = [str |-> a]
    \/ e.recipient = [str |-> "broadcast"]
    \/ /\ "list" \in DOMAIN e.recipient
       /\ \E n \in DOMAIN e.recipient.list : e.recipient.list[n] = a

\* the entries whose envelopes agent a has dispatched, and its unfinished tasks
TaskIds(a) == {tasks[a][k].id : k \in DOMAIN tasks[a]}
InFlight(a) == {k \in DOMAIN tasks[a] : tasks[a][k].st \in {"pending", "connecting", "xadd"}}
\* the entries task k of agent a has appended
AppendedBy(a, k) == {i \in DOMAIN origin : origin[i] = [by |-> a, task |-> k]}
ParseErrorLine(i) == <<"[RedisBus] Failed to parse envelope", i>>
HandlerErrorLine(i) == <<"Error while handling message", i>>

\* C1: a subscription processes (yields or skips) exactly the entries after
\* its start position, each once and in log order, and its cursor last_id is
\* the identifier of the last entry processed, skipped ones included, so the
\* next read starts right after it.
C1_ExactlyOnceInLogOrder ==
    \A a \in AgentIds :
        LET h == hist[a]
        IN  IF h.first_pos = << >>
            THEN h.processed = << >>
            ELSE /\ \A n \in DOMAIN h.processed : h.processed[n] = h.first_pos[1] + n
                 /\ h.first_pos[1] + Len(h.processed) <= Len(log)
                 /\ h.processed # << >> =>
                        sub[a].last_id = h.processed[Len(h.processed)]
                 /\ sub[a].pc = "blocked" =>
                        sub[a].pos = h.first_pos[1] + Len(h.processed)

\* entries existed before the start position, and a skipped entry was
\* followed by a yielded one among at least three processed entries
C1_Witness ==
    \E a \in AgentIds :
        LET h == hist[a]
        IN  /\ h.first_pos # << >> /\ h.first_pos[1] >= 1
            /\ Len(h.processed) >= 3
            /\ \E m, n \in DOMAIN h.processed :
                  /\ m < n
                  /\ h.processed[m] \notin Range(h.yielded)
                  /\ h.processed[n] \in Range(h.yielded)

\* C2: a failure of handle on envelope A is caught in A's own task: the step
\* in which it is raised leaves the receive loop and every other task as they
\* are and ends A's task as caught, and every yielded envelope that is
\* addressed to the agent has been dispatched, whatever failed before it.
C2_LoopDispatches ==
    \A a \in AgentIds : \A i \in Range(hist[a].yielded) :
        Addressed(a, Parsed(i).env) => i \in TaskIds(a)
C2_FailureStep ==
    \A a \in AgentIds : \A r \in hist'[a].raised \ hist[a].raised :
        /\ sub'[a] = sub[a]
        /\ DOMAIN tasks'[a] = DOMAIN tasks[a]
        /\ tasks'[a][r].st = "caught"
        /\ \A j \in DOMAIN tasks[a] \ {r} : tasks'[a][j] = tasks[a][j]
C2_HandlerFailureIsolated == [](C2_LoopDispatches) /\ [][C2_FailureStep]_vars

\* a handler failed, and an envelope the subscription processed after that
\* failure was dispatched by the same, still running, loop
C2_Witness ==
    \E a \in AgentIds : \E r \in hist[a].raised : \E k \in DOMAIN tasks[a] :
        /\ Running(a)
        /\ tasks[a][r].st = "caught"
        /\ k > r
        /\ hist[a].resumed

\* C3: a yielded envelope is dispatched if and only if its recipient is the
\* agent's identifier, "broadcast", or a list containing the identifier; any
\* other envelope is dropped: no task, no printed line, nothing published.
C3_FilterIff ==
    \A a \in AgentIds : \A i \in Range(hist[a].yielded) :
        LET addressed == Addressed(a, Parsed(i).env)
        IN  /\ i \in TaskIds(a) <=> addressed
            /\ ~addressed =>
                  /\ \A line \in stdout[a] : line[2] # i
                  /\ \A j \in DOMAIN origin :
                        origin[j].by = a => tasks[a][origin[j].task].id # i

\* a list recipient without the agent was dropped, a string recipient naming
\* another agent was dropped, and a later envelope was dispatched
C3_Witness ==
    \E a \in AgentIds : \E m, n, o \in DOMAIN hist[a].yielded :
        LET i == hist[a].yielded[m]
            j == hist[a].yielded[n]
        IN  /\ "list" \in DOMAIN Parsed(i).env.recipient
            /\ i \notin TaskIds(a)
            /\ "str" \in DOMAIN Parsed(j).env.recipient
            /\ j \notin TaskIds(a)
            /\ m < o
            /\ hist[a].yielded[o] \in TaskIds(a)

\* C4: a handler whose publish succeeded has appended exactly one entry, the
\* response to the envelope it was dispatched with: sender the agent,
\* recipient the original sender, kind response, the original priority and
\* content {"status": "ack", "echo": original content}; any other handler
\* has appended nothing, and the agent appends nothing outside its handlers.
C4_ExactlyOneAck ==
    \A a \in AgentIds :
        /\ \A j \in DOMAIN origin :
              origin[j].by = a => origin[j].task \in DOMAIN tasks[a]
        /\ \A k \in DOMAIN tasks[a] :
              LET t == tasks[a][k]
                  e == Parsed(t.id).env
              IN  /\ t.envelope = e
                  /\ t.st # "done" => AppendedBy(a, k) = {}
                  /\ t.st = "done" =>
                        /\ Cardinality(AppendedBy(a, k)) = 1
                        /\ \A i \in AppendedBy(a, k) :
                              LET r == Parsed(i)
                              IN  /\ log[i].keys = {"data"}
                                  /\ r.ok
                                  /\ r.env.sender = a
                                  /\ r.env.recipient = [str |-> e.sender]
                                  /\ r.env.kind = "response"
                                  /\ r.env.priority = e.priority
                                  /\ r.env.content =
                                        [status |-> "ack", echo |-> e.content]

\* the request of the specification's scenario (priority 2, content
\* {"task": "patrol"}) has been acknowledged
C4_Witness ==
    \E a \in AgentIds : \E k \in DOMAIN tasks[a] :
        /\ tasks[a][k].st = "done"
        /\ tasks[a][k].envelope.priority = 2
        /\ tasks[a][k].envelope.content = [task |-> "patrol"]
        /\ AppendedBy(a, k) # {}

\* C5: an agent's handler tasks are created in log order: of two dispatched
\* envelopes the one earlier in the log has the earlier task, whatever the
\* priorities are.
C5_DispatchInLogOrder ==
    \A a \in AgentIds : \A j, k \in DOMAIN tasks[a] :
        j < k => tasks[a][j].id < tasks[a][k].id

\* a less urgent envelope (priority 5) was dispatched before a more urgent
\* one (priority 2) that follows it in the log
C5_Witness ==
    \E a \in AgentIds : \E j, k \in DOMAIN tasks[a] :
        /\ j < k
        /\ tasks[a][j].envelope.priority > tasks[a][k].envelope.priority
        /\ tasks[a][k].id = tasks[a][j].id + 1

\* C6: handlers in flight never keep the loop from taking the next answer of
\* the subscription: whenever the blocked read has entries to answer with,
\* the loop can receive and dispatch them, however many handlers are unfinished.
C6_LoopNotBlocked ==
    \A a \in AgentIds :
        (InFlight(a) # {} /\ sub[a].pc = "blocked" /\ Len(log) > sub[a].pos)
            => ENABLED XreadReturn(a)

\* two handlers are in flight, one of them dispatched while the other already
\* was, and the next entries are ready to be received
C6_Witness ==
    \E a \in AgentIds :
        /\ Cardinality(InFlight(a)) >= 2
        /\ sub[a].pc = "blocked"
        /\ Len(log) > sub[a].pos

\* C7: of the entries up to the cursor, one whose payload does not
\* deserialize is never yielded nor dispatched, and every one that carries a
\* valid envelope is yielded, also when a malformed entry precedes it: the
\* subscription goes on after a deserialization failure.
C7_MalformedSkipped ==
    \A a \in AgentIds :
        (hist[a].first_pos # << >> /\ hist[a].processed # << >>) =>
            \A i \in (hist[a].first_pos[1] + 1)..sub[a].last_id :
                ~NoPayload(i) =>
                    IF Parsed(i).ok
                    THEN i \in Range(hist[a].yielded)
                    ELSE i \notin Range(hist[a].yielded) /\ i \notin TaskIds(a)

\* a payload that is not JSON and one that violates the schema were skipped,
\* and a valid envelope after them was yielded by the running subscription
C7_Witness ==
    \E a \in AgentIds : \E i, j, k \in Range(hist[a].processed) :
        /\ Running(a)
        /\ ~NoPayload(i) /\ ~log[i].data.wf
        /\ Malformed(j) /\ log[j].data.wf
        /\ i < k /\ j < k
        /\ k \in Range(hist[a].yielded)

\* C8: an entry without the "data" field is skipped without being yielded and
\* without the parse-error line, a malformed payload is skipped with that
\* line, and the cursor passes both.
C8_NoPayloadSilent ==
    \A a \in AgentIds : \A i \in Range(hist[a].processed) :
        /\ NoPayload(i) =>
              /\ i \notin Range(hist[a].yielded)
              /\ ParseErrorLine(i) \notin stdout[a]
        /\ Malformed(i) => ParseErrorLine(i) \in stdout[a]
        /\ sub[a].last_id >= i

\* a payload-less entry was skipped silently, a malformed one was logged, and
\* a later entry was yielded
C8_Witness ==
    \E a \in AgentIds : \E i, j, k \in Range(hist[a].processed) :
        /\ NoPayload(i) /\ ParseErrorLine(i) \notin stdout[a]
        /\ Malformed(j) /\ ParseErrorLine(j) \in stdout[a]
        /\ i < k
        /\ k \in Range(hist[a].yielded)

\* C9: a subscription with the default start position yields no entry that
\* was in the log when its first read was sent.
C9_NoReplay ==
    \A a \in AgentIds : \A i \in Range(hist[a].yielded) :
        /\ hist[a].issued_at # << >>
        /\ i > hist[a].issued_at[1]

\* the log held a valid envelope when the first read was sent, another entry
\* arrived before the broker took the read, and a later envelope was yielded
C9_Witness ==
    \E a \in AgentIds :
        /\ hist[a].yielded # << >>
        /\ hist[a].issued_at # << >> /\ hist[a].issued_at[1] >= 1
        /\ Valid(1)
        /\ hist[a].first_pos[1] > hist[a].issued_at[1]

\* C10: a publish whose XADD failed has ended its handler with the failure
\* (caught and printed by _safe_handle), and no entry of that handler is ever
\* on the log: nothing is appended for it and nothing retries it.
C10_FailedPublishLost ==
    \A a \in AgentIds : \A r \in hist[a].raised :
        /\ tasks[a][r].st = "caught"
        /\ HandlerErrorLine(tasks[a][r].id) \in stdout[a]
        /\ AppendedBy(a, r) = {}

\* a Captain response was lost and the agent, still running, has received
\* and acknowledged a later envelope
C10_Witness ==
    \E a \in AgentIds : \E r \in hist[a].raised : \E k \in DOMAIN tasks[a] :
        /\ Running(a)
        /\ k > r
        /\ tasks[a][k].st = "done"
        /\ AppendedBy(a, k) # {}
        /\ hist[a].resumed

\* C11: run_forever ends only by a failure of the subscription's connecting
\* or of its blocking read: the loop is running until then, a failure of
\* either always ends it, and the step that ends it raises out of subscribe
\* and run_forever without printing or skipping anything.
C11_Ended(a) == sub[a].pc \notin {"off", "new", "connecting", "xread", "blocked"}
C11_FailureIsFatal ==
    \A a \in AgentIds :
        /\ C11_Ended(a) <=> hist[a].sub_failed
        /\ C11_Ended(a) => sub[a].pc = "failed"
C11_EndingStep ==
    \A a \in AgentIds :
        (~C11_Ended(a) /\ C11_Ended(a)') =>
            /\ sub[a].pc \in {"connecting", "xread", "blocked"}
            /\ sub'[a].pc = "failed"
            /\ stdout'[a] = stdout[a]
            /\ hist'[a].processed = hist[a].processed
            /\ hist'[a].raised = hist[a].raised
            /\ log' = log
C11_OnlySubscriptionFailureEnds == [](C11_FailureIsFatal) /\ [][C11_EndingStep]_vars

\* the blocking read failed after the loop had skipped a malformed entry, lost
\* a handler to a failed publish and dispatched again: none of those ended it
C11_Witness ==
    \E a \in AgentIds :
        /\ sub[a].pc = "failed"
        /\ hist[a].raised # {}
        /\ hist[a].resumed
        /\ \E i \in Range(hist[a].processed) : Malformed(i)

C13_ValidationBoundary ==
    codec.pc \in {"built", "invalid", "json", "parsed"} =>
        LET args == codec.args
            given(k) == k \in DOMAIN args
            bad == \/ given("priority") /\ args.priority \notin 1..5
                   \/ given("kind") /\
                        args.kind \notin {"request", "response", "notification", "command"}
                   \/ ~given("sender")
                   \/ ~given("recipient")
        IN  /\ bad => codec.pc = "invalid"
            /\ codec.pc # "invalid" =>
                  /\ ~given("priority") => codec.env.priority = 3
                  /\ ~given("content") => codec.env.content = << >>

\* the construction with priority 0 and nothing else wrong has failed
C13_Witness ==
    /\ codec.pc = "invalid"
    /\ DOMAIN codec.args = {"message_id", "ts", "sender", "recipient", "priority",
                            "kind", "content"}
    /\ codec.args.priority = 0
    /\ codec.args.kind = "request"
    /\ codec.args.sender = "sergeant"
    /\ codec.args.recipient = [str |-> "captain"]

\* C14: on one bus, however publish and subscribe calls interleave, from_url
\* succeeds at most once: the handle stored first stays the stored one and
\* every call works on it.
C14_ConnectsOnce ==
    /\ hist[Owner].connects <= 1
    /\ bus[Owner].redis \in {None, Redis(1)}
    /\ \A k \in DOMAIN calls : calls[k].redis \in {None, Redis(1)}

\* the constraints of the data model on one envelope
C15_Constrained(e) ==
    /\ e.kind \in Kinds
    /\ e.priority \in PriorityMin..PriorityMax
    /\ e.sender # ""
    /\ DOMAIN e.recipient \in {{"str"}, {"list"}}

\* C15: every envelope an agent's subscription has yielded, every envelope
\* handed to a handler and every envelope an agent has appended has a kind
\* among the four tags, a priority from 1 to 5, a non-empty sender and a
\* recipient that is a string or a list; an entry whose payload breaks one of
\* these is never yielded.
C15_EnvelopesWellFormed ==
    \A a \in AgentIds :
        /\ \A i \in Range(hist[a].yielded) :
              Parsed(i).ok /\ C15_Constrained(Parsed(i).env)
        /\ \A k \in DOMAIN tasks[a] : C15_Constrained(tasks[a][k].envelope)
        /\ \A j \in DOMAIN origin :
              origin[j].by = a =>
                  Parsed(j).ok /\ C15_Constrained(Parsed(j).env)

\* C16: with two agents subscribed to the stream, no entry after an agent's
\* start position is missing from what that agent has processed up to its
\* cursor and up to the position its pending read starts from, whatever the
\* other agent has read; every valid one of them was
\* yielded to the agent's filter; a broadcast envelope has exactly one task at
\* every agent that processed it, and an envelope with a list recipient has
\* exactly one task at an agent in the list and none at any other agent.
C16_EveryAgentEveryEntry ==
    \A a \in AgentIds :
        LET h == hist[a]
        IN  /\ h.processed # << >> =>
                  \A i \in (h.first_pos[1] + 1)..sub[a].last_id :
                      i \in Range(h.processed)
            /\ sub[a].pc = "blocked" =>
                  \A i \in (h.first_pos[1] + 1)..sub[a].pos :
                      i \in Range(h.processed)
            /\ \A i \in Range(h.processed) :
                  LET r == Parsed(i)
                      mine == {k \in DOMAIN tasks[a] : tasks[a][k].id = i}
                  IN  (~NoPayload(i) /\ r.ok) =>
                          /\ i \in Range(h.yielded)
                          /\ r.env.recipient = Str("broadcast") =>
                                Cardinality(mine) = 1
                          /\ IsList(r.env.recipient) =>
                                Cardinality(mine) =
                                    IF a \in Range(r.env.recipient.list)
                                    THEN 1 ELSE 0

\* both agents have processed the same broadcast entry and the same entry
\* with the list recipient ["sergeant", "broadcast"]: the first has a task at
\* both, the second at the sergeant only
C16_Witness ==
    \E i, j \in DOMAIN log :
        /\ log[i] = Broadcast /\ log[j] = ListOthers
        /\ \A a \in AgentIds :
              /\ {i, j} \subseteq Range(hist[a].processed)
              /\ i \in TaskIds(a)
        /\ j \in TaskIds("sergeant")
        /\ j \notin TaskIds("captain")

\* the valid envelopes addressed to agent a that were appended after its
\* subscription started and that it has not dispatched
C17_Owed(a) ==
    IF hist[a].first_pos = << >> THEN {}
    ELSE {i \in (hist[a].first_pos[1] + 1)..Len(log) :
             /\ Valid(i)
             /\ Addressed(a, Parsed(i).env)
             /\ i \notin TaskIds(a)}

\* C17: with an event loop that takes every XREAD answer that stays
\* available, a valid envelope addressed to the agent and appended after its
\* subscription started is eventually dispatched unless the read fails, and
\* no entry is ever dispatched twice, whatever was appended before it.
C17_EventuallyDispatchedOnce ==
    /\ [](\A a \in AgentIds : \A j, k \in DOMAIN tasks[a] :
             tasks[a][j].id = tasks[a][k].id => j = k)
    /\ \A a \in AgentIds :
          (C17_Owed(a) # {}) ~> (C17_Owed(a) = {} \/ hist[a].sub_failed)

\* after a malformed entry that the running subscription has skipped, a later
\* envelope addressed to the agent has its task
C17_Witness ==
    \E a \in AgentIds : \E m, n \in DOMAIN hist[a].processed :
        /\ Running(a)
        /\ m < n
        /\ Malformed(hist[a].processed[m])
        /\ hist[a].processed[n] \in TaskIds(a)
        /\ C17_Owed(a) = {}

\* C18: nothing orders the completion of concurrently dispatched handlers:
\* while two tasks of an agent both wait for their XADD, the later
\* dispatched one can complete (its response is appended) as well as the
\* earlier one.
C18_NoCompletionOrder ==
    \A a \in AgentIds : \A j, k \in DOMAIN tasks[a] :
        (/\ Running(a)
         /\ j < k
         /\ tasks[a][j].st = "xadd"
         /\ tasks[a][k].st = "xadd")
        => (ENABLED XaddOk(a, k)) /\ (ENABLED XaddOk(a, j))

\* the handler dispatched second has completed and its response is on the
\* log while the handler dispatched first still waits for its XADD
C18_Witness ==
    \E a \in AgentIds : \E j, k \in DOMAIN tasks[a] :
        /\ j < k
        /\ tasks[a][j].id < tasks[a][k].id
        /\ tasks[a][j].st = "xadd"
        /\ tasks[a][k].st = "done"
        /\ AppendedBy(a, k) # {}

\* the entries other producers appended whose envelopes are addressed to a
C19_Inbound(a) ==
    {i \in DOMAIN log :
        origin[i] = External /\ Valid(i) /\ Addressed(a, Parsed(i).env)}
\* the senders other producers have put on their valid envelopes
C19_Senders ==
    {Parsed(i).env.sender : i \in {j \in DOMAIN log : origin[j] = External /\ Valid(j)}}
\* no handler of a runs on an entry a appended; an inbound envelope has one
\* task, a task at most one response and exactly one once it is done, and a
\* has appended no more entries than it has inbound envelopes
C19_ChainStops(a) ==
    /\ \A k \in DOMAIN tasks[a] : origin[tasks[a][k].id] = External
    /\ \A j, k \in DOMAIN tasks[a] : tasks[a][j].id = tasks[a][k].id => j = k
    /\ \A k \in DOMAIN tasks[a] :
          /\ Cardinality(AppendedBy(a, k)) <= 1
          /\ tasks[a][k].st = "done" => Cardinality(AppendedBy(a, k)) = 1
    /\ Cardinality({i \in DOMAIN origin : origin[i].by = a})
          <= Cardinality(C19_Inbound(a))

\* C19 as stated: while no other producer has used the agent's identifier as
\* the sender of an envelope, the agent has not dispatched an entry it
\* appended itself and has appended at most one response for each inbound
\* envelope.
C19_NoSelfAckUnlessOwnSender ==
    \A a \in AgentIds : a \notin C19_Senders => C19_ChainStops(a)

\* C19, amended: while no other producer has used the agent's identifier or
\* "broadcast" as the sender of an envelope, the agent has not dispatched an
\* entry it appended itself, every inbound envelope has at most one response
\* (exactly one once its handler's publish has succeeded) and the agent has
\* appended no more entries than it has inbound envelopes.
C19_NoSelfAck ==
    \A a \in AgentIds :
        (a \notin C19_Senders /\ "broadcast" \notin C19_Senders)
            => C19_ChainStops(a)

\* the Captain has answered the sergeant's request and has then read its own
\* response from the stream without dispatching it
C19_Witness ==
    \E k \in DOMAIN tasks["captain"] : \E i \in AppendedBy("captain", k) :
        /\ Running("captain")
        /\ C19_Senders = {"sergeant"}
        /\ tasks["captain"][k].st = "done"
        /\ i \in Range(hist["captain"].yielded)
        /\ i \notin TaskIds("captain")

\* C20: in the process of main() the bus has its client before anything is
\* yielded or dispatched, no handler ever waits for a connection of its own,
\* the bus has connected at most once and holds the client of that one
\* connection; and the step that connects is a step of the subscription,
\* taken before any task exists.
C20_ClientSet ==
    \A a \in AgentIds :
        /\ (hist[a].yielded # << >> \/ tasks[a] # << >>) =>
              bus[a].redis = Redis(1)
        /\ \A k \in DOMAIN tasks[a] : tasks[a][k].st # "connecting"
        /\ hist[a].connects <= 1
        /\ bus[a].redis = (IF hist[a].connects = 0 THEN None ELSE Redis(1))
C20_ConnectStep ==
    \A a \in AgentIds :
        hist'[a].connects # hist[a].connects =>
            /\ sub[a].pc = "connecting"
            /\ tasks[a] = << >>
            /\ hist[a].yielded = << >>
C20_HandlersNeverConnect == [](C20_ClientSet) /\ [][C20_ConnectStep]_vars

\* two handlers are in publish at the same time, both at their XADD, on the
\* one client the subscription connected
C20_Witness ==
    \E a \in AgentIds : \E j, k \in DOMAIN tasks[a] :
        /\ j # k
        /\ tasks[a][j].st = "xadd"
        /\ tasks[a][k].st = "xadd"
        /\ hist[a].connects = 1
        /\ bus[a].redis = Redis(1)

============================================================================
